---- MODULE Spec2Model ----
(***************************************************************************)
(* Verification model of the vido media resolver: platform detection, URL  *)
(* validation, the /api/fetch-video POST handler, the extractor fallback    *)
(* chains of the service variants, the format selectors, and the page      *)
(* component that calls the handler.                                       *)
(***************************************************************************)
EXTENDS Integers, Sequences, FiniteSets, TLC

VARIABLES
    phase,      \* which entry point this behaviour exercises, and how far it got
    url,        \* the url argument / request field
    body,       \* "ok" | "bad": whether request.json() parses
    quality,    \* the quality argument / request field
    platform,   \* result of detectPlatform
    validation, \* result of validateVideoUrl
    formats,    \* the formats argument of the selectors
    selected,   \* result of selectFormat / selectPhotoFormat
    svc,        \* which service module provides fetchVideoInfo
    env,        \* the host (gallery-dl, cookies.txt, browser profile) and the upstream
    calls,      \* extractor invocations so far, in order, with their outcomes
    errors,     \* the errors[] list of fetchVideoInfo (internal-API variant)
    fetched,    \* outcome of fetchVideoInfo
    secondary,  \* format ids getDownloadUrl was called with, in order
    response,   \* the HTTP response of the POST handler
    videoState,      \* page component: [status, data, error]
    fetchingQuality, \* page component: "sd" | "hd" | "null"
    requests         \* page component: the fetchVideo calls awaiting their request

vars == <<phase, url, body, quality, platform, validation, formats, selected,
          svc, env, calls, errors, fetched, secondary, response,
          videoState, fetchingQuality, requests>>

pageVars == <<videoState, fetchingQuality, requests>>

None == [kind |-> "none"]

Null == [kind |-> "null"]

\* the page component as useState initialises it, with no fetchVideo call
\* in progress
PageIdle ==
    /\ videoState = [status |-> "idle", data |-> Null, error |-> Null]
    /\ fetchingQuality = "null"
    /\ requests = <<>>

\* ------------------------------------------------------------------------
\* URLs.  A string url is the concatenation ws . scheme . sub . host . path
\* (ws = surrounding whitespace); the regular expressions of the source are
\* evaluated on these parts.
\* ------------------------------------------------------------------------

Schemes == {"", "http://", "https://", "HTTPS://", "ftp://"}

Subs == {"", "www.", "m.", "vm."}

Hosts == {"youtube.com", "youtu.be", "instagram.com", "facebook.com",
          "twitter.com", "x.com", "tiktok.com", "vimeo.com", "example.com"}

Paths == {"", "/", "/watch?v=a", "/shorts/a", "/reel/a", "/p/a",
          "/u/status/1", "/videos/1", "/a"}

UrlValue(k, w, s, b, h, p) ==
    [kind |-> k, ws |-> w, scheme |-> s, sub |-> b, host |-> h, path |-> p]

\* url absent from the body (undefined / null)
MissingUrl == UrlValue("missing", FALSE, "", "", "", "")

\* url present but not a string (a number, an object)
NonStringUrl == UrlValue("nonstring", FALSE, "", "", "", "")

\* the empty string, and a string of whitespace only
EmptyUrl == UrlValue("string", FALSE, "", "", "", "")

BlankUrl == UrlValue("string", TRUE, "", "", "", "")

StringUrls ==
    {UrlValue("string", w, s, b, h, p) :
        w \in BOOLEAN, s \in Schemes, b \in Subs, h \in Hosts, p \in Paths}
    \cup {EmptyUrl, BlankUrl}

AllUrls == StringUrls \cup {MissingUrl, NonStringUrl}

\* !url || typeof url !== 'string'
Falsy(u) == u.kind # "string" \/ u = EmptyUrl

\* url.trim()
Trim(u) == [u EXCEPT !.ws = FALSE]

\* /^https?:\/\//i  tested at the start of the string
MatchesHttpPrefixAt0(u) == ~u.ws /\ u.scheme \in {"http://", "https://", "HTTPS://"}

\* ^(https?:\/\/)?  : the optional group consumes an http(s) scheme, or nothing
OptionalSchemeOk(u) == ~u.ws /\ u.scheme \in {"", "http://", "https://", "HTTPS://"}

\* the part of the path after its first "/" contains videos?|watch|reel
FacebookPath(p) == p \in {"/watch?v=a", "/reel/a", "/videos/1"}

\* the path matches \/.*\/status\/
StatusPath(p) == p \in {"/u/status/1"}

\* the path starts with "/"
SlashPath(p) == p # ""

\* KNOWN_PLATFORMS[name].test(u)
KnownPlatformTest(name, u) ==
    /\ OptionalSchemeOk(u)
    /\ CASE name = "youtube" ->
              /\ u.sub \in {"", "www."}
              /\ \/ u.host = "youtube.com" /\ u.path \in {"/watch?v=a", "/shorts/a"}
                 \/ u.host = "youtu.be" /\ SlashPath(u.path)
         [] name = "instagram" ->
              /\ u.sub \in {"", "www."}
              /\ u.host = "instagram.com"
              /\ u.path \in {"/reel/a", "/p/a"}
         [] name = "facebook" ->
              /\ u.sub \in {"", "www.", "m."}
              /\ u.host = "facebook.com"
              /\ FacebookPath(u.path)
         [] name = "twitter" ->
              /\ u.sub \in {"", "www."}
              /\ u.host \in {"twitter.com", "x.com"}
              /\ StatusPath(u.path)
         [] name = "tiktok" ->
              /\ u.sub \in {"", "www.", "vm."}
              /\ u.host = "tiktok.com"
              /\ SlashPath(u.path)
         [] name = "vimeo" ->
              /\ u.sub \in {"", "www."}
              /\ u.host = "vimeo.com"
              /\ SlashPath(u.path)

\* Object.entries(KNOWN_PLATFORMS), in declaration order
KNOWN_PLATFORMS == <<"youtube", "instagram", "facebook", "twitter", "tiktok", "vimeo">>

FirstKnown(u) ==
    LET hits == {i \in DOMAIN KNOWN_PLATFORMS : KnownPlatformTest(KNOWN_PLATFORMS[i], u)}
    IN  IF hits = {} THEN "" ELSE KNOWN_PLATFORMS[CHOOSE i \in hits : \A j \in hits : i <= j]

detectPlatform(u) ==
    IF Falsy(u) THEN "unknown"
    ELSE LET t == Trim(u) IN
         IF FirstKnown(t) # "" THEN FirstKnown(t)
         ELSE IF MatchesHttpPrefixAt0(t) THEN "other"
         ELSE "unknown"

validateVideoUrl(u) ==
    IF Falsy(u)
    THEN [isValid |-> FALSE, platform |-> "unknown", error |-> "URL is required"]
    ELSE LET t == Trim(u) IN
         IF ~MatchesHttpPrefixAt0(t)
         THEN [isValid |-> FALSE, platform |-> "unknown",
               error |-> "URL must start with http:// or https://"]
         ELSE [isValid |-> TRUE, platform |-> detectPlatform(t), error |-> ""]

\* ------------------------------------------------------------------------
\* Formats and the selectors.
\* ------------------------------------------------------------------------

MaxFormats == 3

SD_MAX_HEIGHT == 480

HD_TARGET_HEIGHT == 1080

Format(id, e, w, h, vc, ac, u) ==
    [format_id |-> id, ext |-> e, width |-> w, height |-> h,
     vcodec |-> vc, acodec |-> ac, url |-> u]

\* an absent number is 0 (f.height || 0), an absent string is "" (f.ext || '')
Abs(n) == IF n < 0 THEN -n ELSE n

\* Array.prototype.sort: stable; cmp[j][i] is the comparator's value for
\* (s[j], s[i]), negative to put s[j] first
SortBy(s, cmp) ==
    LET Before(j, i) == cmp[j][i] < 0 \/ (cmp[j][i] = 0 /\ j < i)
        Rank(i) == Cardinality({j \in DOMAIN s : Before(j, i)}) + 1
    IN  [k \in DOMAIN s |-> s[CHOOSE i \in DOMAIN s : Rank(i) = k]]

\* the values of a comparator on the elements of s
HeightDescOn(s) == [j \in DOMAIN s |-> [i \in DOMAIN s |-> s[i].height - s[j].height]]

ByDistanceThenHeightDesc(a, b) ==
    IF Abs(a.height - HD_TARGET_HEIGHT) # Abs(b.height - HD_TARGET_HEIGHT)
    THEN Abs(a.height - HD_TARGET_HEIGHT) - Abs(b.height - HD_TARGET_HEIGHT)
    ELSE b.height - a.height

DistanceThenHeightDescOn(s) ==
    [j \in DOMAIN s |-> [i \in DOMAIN s |-> ByDistanceThenHeightDesc(s[j], s[i])]]

\* selectFromFormats with the SD bound made exclusive (height < 480)
selectFromFormats_SdExclusive(fs, q) ==
    LET sorted == SortBy(fs, HeightDescOn(fs)) IN
    IF q = "sd" THEN
        LET sdFormats == SelectSeq(sorted, LAMBDA f : f.height < SD_MAX_HEIGHT)
        IN  IF Len(sdFormats) > 0 THEN sdFormats[1]
            ELSE IF Len(sorted) > 0 THEN sorted[Len(sorted)] ELSE None
    ELSE IF q = "hd" THEN
        LET exact1080 == SelectSeq(sorted, LAMBDA f : f.height = HD_TARGET_HEIGHT)
            withDistance == SortBy(sorted, DistanceThenHeightDescOn(sorted))
        IN  IF Len(exact1080) > 0 THEN exact1080[1]
            ELSE IF Len(withDistance) > 0 THEN withDistance[1] ELSE None
    ELSE None

selectFromFormats(fs, q) ==
    LET sorted == SortBy(fs, HeightDescOn(fs)) IN
    IF q = "sd" THEN
        LET sdFormats == SelectSeq(sorted, LAMBDA f : f.height <= SD_MAX_HEIGHT)
        IN  IF Len(sdFormats) > 0 THEN sdFormats[1]
            ELSE IF Len(sorted) > 0 THEN sorted[Len(sorted)] ELSE None
    ELSE IF q = "hd" THEN
        LET exact1080 == SelectSeq(sorted, LAMBDA f : f.height = HD_TARGET_HEIGHT)
            withDistance == SortBy(sorted, DistanceThenHeightDescOn(sorted))
        IN  IF Len(exact1080) > 0 THEN exact1080[1]
            ELSE IF Len(withDistance) > 0 THEN withDistance[1] ELSE None
    ELSE None

\* the first filter without the isCompatible test
IsVideoFormat_AnyExt(f) ==
    /\ f.vcodec # "" /\ f.vcodec # "none"
    /\ f.height > 0

\* the first filter of selectFormat: hasVideo && hasHeight && isCompatible
IsVideoFormat(f) ==
    /\ f.vcodec # "" /\ f.vcodec # "none"
    /\ f.height > 0
    /\ f.ext \in {"mp4", "webm"}

\* selectFormat without the fallback to any format with a height
selectFormat_NoFallback(fs, q) ==
    LET videoFormats == SelectSeq(fs, IsVideoFormat)
    IN  IF Len(videoFormats) = 0 THEN None
        ELSE selectFromFormats(videoFormats, q)

selectFormat(fs, q) ==
    LET videoFormats == SelectSeq(fs, IsVideoFormat)
        anyWithHeight == SelectSeq(fs, LAMBDA f : f.height > 0)
    IN  IF Len(videoFormats) = 0
        THEN IF Len(anyWithHeight) = 0 THEN None
             ELSE selectFromFormats(anyWithHeight, q)
        ELSE selectFromFormats(videoFormats, q)

\* selectFormat of the internal-API service module
selectFormatInternal(fs, q) ==
    IF Len(fs) = 0 THEN None
    ELSE IF Len(fs) > 1 THEN
        LET targetHeight == IF q = "hd" THEN 1080 ELSE 480
            sorted == SortBy(fs, [j \in DOMAIN fs |-> [i \in DOMAIN fs |->
                          Abs(fs[j].height - targetHeight) - Abs(fs[i].height - targetHeight)]])
        IN  sorted[1]
    ELSE fs[1]

\* String.prototype.toLowerCase on the extensions of the model
ToLowerCase(e) ==
    CASE e = "JPG" -> "jpg"
      [] e = "PNG" -> "png"
      [] OTHER -> e

imageExtensions == {"jpg", "jpeg", "png", "webp", "gif", "bmp"}

\* extPriority[e] || 99
extPriority(e) ==
    CASE e \in {"jpg", "jpeg"} -> 1
      [] e = "png" -> 2
      [] e = "webp" -> 3
      [] e = "gif" -> 4
      [] e = "bmp" -> 5
      [] OTHER -> 99

ByAreaThenExt(a, b) ==
    IF a.width * a.height = b.width * b.height
    THEN extPriority(a.ext) - extPriority(b.ext)
    ELSE b.width * b.height - a.width * a.height

\* selectPhotoFormat returning the first format in source order
selectPhotoFormat_FirstFormat(fs) == IF Len(fs) > 0 THEN fs[1] ELSE None

selectPhotoFormat(fs) ==
    LET imageFormats == SelectSeq(fs, LAMBDA f : ToLowerCase(f.ext) \in imageExtensions)
        sorted == SortBy(imageFormats, [j \in DOMAIN imageFormats |-> [i \in DOMAIN imageFormats |->
                      ByAreaThenExt(imageFormats[j], imageFormats[i])]])
    IN  IF Len(imageFormats) = 0
        THEN IF Len(fs) > 0 THEN fs[1] ELSE None
        ELSE sorted[1]

\* ------------------------------------------------------------------------
\* Inputs of the pure functions.
\* ------------------------------------------------------------------------

\* (ext, vcodec, height) shapes of video formats as yt-dlp reports them
VideoShapes ==
    {<<"mp4", "h264", h>> : h \in {0, 240, 480, 720, 980, 1080, 1180}}
    \cup {<<"webm", "vp9", h>> : h \in {480, 1080}}
    \cup {<<"flv", "h264", h>> : h \in {240, 1080, 1180}}
    \cup {<<"mp4", "none", h>> : h \in {480, 720}}
    \cup {<<"m4a", "", 0>>, <<"mp4", "", 720>>}

\* (ext, width, height) shapes of image formats
PhotoShapes ==
    {<<e, d[1], d[2]>> : e \in {"jpg", "JPG", "png", "webp", "mp4"},
                         d \in {<<0, 0>>, <<100, 100>>, <<200, 50>>, <<1080, 1080>>}}

\* all lists of at most MaxFormats formats over a set of shapes; format_id is
\* the position in the list
ListsOver(shapes) == UNION {[1..n -> shapes] : n \in 0..MaxFormats}

VideoFormatLists ==
    {[i \in DOMAIN l |-> Format(i, l[i][1], 0, l[i][3], l[i][2], "aac", "u")] :
        l \in ListsOver(VideoShapes)}

PhotoFormatLists ==
    {[i \in DOMAIN l |-> Format(i, l[i][1], l[i][2], l[i][3], "none", "none", "u")] :
        l \in ListsOver(PhotoShapes)}

Elems(s) == {s[i] : i \in DOMAIN s}

\* ------------------------------------------------------------------------
\* Specification of the classifier: detectPlatform / validateVideoUrl applied
\* to an arbitrary url.
\* ------------------------------------------------------------------------

IdleRequest ==
    /\ body = "ok"
    /\ svc = "ytdlp"
    /\ env = None
    /\ calls = <<>>
    /\ errors = <<>>
    /\ fetched = None
    /\ secondary = <<>>
    /\ response = None

InitClassify ==
    /\ phase = "classify"
    /\ url \in AllUrls
    /\ quality = "sd"
    /\ platform = ""
    /\ validation = None
    /\ formats = <<>>
    /\ selected = None
    /\ IdleRequest
    /\ PageIdle

Classify ==
    /\ phase = "classify"
    /\ phase' = "classified"
    /\ platform' = detectPlatform(url)
    /\ validation' = validateVideoUrl(url)
    /\ UNCHANGED <<url, body, quality, formats, selected, svc, env, calls, errors,
                   fetched, secondary, response>>
    /\ UNCHANGED pageVars

NextClassify == Classify

SpecClassify == InitClassify /\ [][NextClassify]_vars

\* ------------------------------------------------------------------------
\* Specification of the video selectors: selectFormat of the yt-dlp module
\* and of the internal-API module applied to an arbitrary formats list.
\* ------------------------------------------------------------------------

InitSelect ==
    /\ phase = "select"
    /\ url = EmptyUrl
    /\ quality \in {"sd", "hd"}
    /\ platform = ""
    /\ validation = None
    /\ formats \in VideoFormatLists
    /\ selected = None
    /\ IdleRequest
    /\ PageIdle

\* the formats argument after a call of selectFormat that sorted it in place
ArgumentAfterSelectFormat_SortedInPlace(fs) == SortBy(fs, HeightDescOn(fs))

\* the formats argument after a call of selectFormat: filter() builds new
\* arrays and selectFromFormats sorts a copy ([...formats]), so the caller's
\* array is as it was
ArgumentAfterSelectFormat(fs) == fs

SelectFormatStep ==
    /\ phase = "select"
    /\ phase' = "selected"
    /\ selected' = selectFormat(formats, quality)
    /\ formats' = ArgumentAfterSelectFormat(formats)
    /\ UNCHANGED <<url, body, quality, platform, validation, svc, env, calls,
                   errors, fetched, secondary, response>>
    /\ UNCHANGED pageVars

\* a second call of selectFormat with the same arguments
SelectFormatAgainStep ==
    /\ phase = "selected"
    /\ phase' = "selectedAgain"
    /\ selected' = selectFormat(formats, quality)
    /\ formats' = ArgumentAfterSelectFormat(formats)
    /\ UNCHANGED <<url, body, quality, platform, validation, svc, env, calls,
                   errors, fetched, secondary, response>>
    /\ UNCHANGED pageVars

SelectFormatInternalStep ==
    /\ phase = "select"
    /\ phase' = "selectedInternal"
    /\ selected' = selectFormatInternal(formats, quality)
    /\ UNCHANGED <<url, body, quality, platform, validation, formats, svc, env, calls,
                   errors, fetched, secondary, response>>
    /\ UNCHANGED pageVars

NextSelect == SelectFormatStep \/ SelectFormatAgainStep \/ SelectFormatInternalStep

SpecSelect == InitSelect /\ [][NextSelect]_vars

\* ------------------------------------------------------------------------
\* Specification of the photo selector.
\* ------------------------------------------------------------------------

InitPhoto ==
    /\ phase = "photo"
    /\ url = EmptyUrl
    /\ quality = "sd"
    /\ platform = ""
    /\ validation = None
    /\ formats \in PhotoFormatLists
    /\ selected = None
    /\ IdleRequest
    /\ PageIdle

SelectPhotoStep ==
    /\ phase = "photo"
    /\ phase' = "photoSelected"
    /\ selected' = selectPhotoFormat(formats)
    /\ UNCHANGED <<url, body, quality, platform, validation, formats, svc, env, calls,
                   errors, fetched, secondary, response>>
    /\ UNCHANGED pageVars

NextPhoto == SelectPhotoStep

SpecPhoto == InitPhoto /\ [][NextPhoto]_vars

\* ------------------------------------------------------------------------
\* Descriptors (YtDlpVideoInfo) and the conversions of the yt-dlp module.
\* ------------------------------------------------------------------------

\* an absent string field is "", an absent number 0, an absent list <<>>
Info(t, th, ths, d, up, ch, u, fs) ==
    [title |-> t, thumbnail |-> th, thumbnails |-> ths, duration |-> d,
     uploader |-> up, channel |-> ch, url |-> u, formats |-> fs]

\* info.url.toLowerCase() includes one of .jpg .jpeg .png .webp .gif
UrlHasImageExtension(u) == u \in {"https://cdn/p.jpg", "https://cdn/P.JPG"}

detectIfPhoto(info) ==
    /\ info.duration = 0
    /\ \/ \E i \in DOMAIN info.formats :
              ToLowerCase(info.formats[i].ext) \in imageExtensions
       \/ info.url # "" /\ UrlHasImageExtension(info.url)

\* toVideoInfo taking the first element of thumbnails
toVideoInfo_FirstThumbnail(info, plat) ==
    [title |-> IF info.title # "" THEN info.title ELSE "Unknown Title",
     thumbnail |-> IF info.thumbnail # "" THEN info.thumbnail
                   ELSE IF Len(info.thumbnails) > 0 THEN info.thumbnails[1] ELSE "",
     duration |-> info.duration,
     uploader |-> IF info.uploader # "" THEN info.uploader
                  ELSE IF info.channel # "" THEN info.channel ELSE "Unknown",
     platform |-> plat,
     mediaType |-> IF detectIfPhoto(info) THEN "photo" ELSE "video"]

toVideoInfo(info, plat) ==
    [title |-> IF info.title # "" THEN info.title ELSE "Unknown Title",
     thumbnail |-> IF info.thumbnail # "" THEN info.thumbnail
                   ELSE IF Len(info.thumbnails) > 0
                        THEN info.thumbnails[Len(info.thumbnails)]
                        ELSE "",
     duration |-> info.duration,
     uploader |-> IF info.uploader # "" THEN info.uploader
                  ELSE IF info.channel # "" THEN info.channel ELSE "Unknown",
     platform |-> plat,
     mediaType |-> IF detectIfPhoto(info) THEN "photo" ELSE "video"]

\* ------------------------------------------------------------------------
\* What the extractors can answer.
\* ------------------------------------------------------------------------

Pending == [kind |-> "pending"]

Got(info) == [kind |-> "info", info |-> info]

Threw(m) == [kind |-> "throw", message |-> m]

VideoInfoSample(fs, d, u) == Info("T", "", <<>>, d, "U", "", u, fs)

\* descriptors yt-dlp --dump-json can print
YtDlpInfos ==
    { VideoInfoSample(<<Format(1, "mp4", 1280, 720, "h264", "aac", "https://cdn/720"),
                        Format(2, "mp4", 1920, 1080, "h264", "none", "")>>, 60, ""),
      VideoInfoSample(<<Format(1, "m4a", 0, 0, "none", "aac", "https://cdn/a")>>, 60, ""),
      VideoInfoSample(<<Format(1, "jpg", 1080, 1080, "none", "none", "https://cdn/p.jpg")>>, 0, ""),
      VideoInfoSample(<<Format(1, "mp4", 640, 360, "h264", "aac", "")>>, 0, ""),
      VideoInfoSample(<<Format(1, "mp4", 640, 360, "h264", "aac", "https://cdn/v")>>, 0,
                      "https://cdn/p.jpg"),
      VideoInfoSample(<<Format(1, "mp4", 640, 360, "h264", "aac", "https://cdn/v"),
                        Format(2, "JPG", 1080, 1080, "none", "none", "https://cdn/P.JPG")>>,
                      0, ""),
      VideoInfoSample(<<Format(1, "jpg", 320, 240, "none", "none", "https://cdn/p.jpg"),
                        Format(2, "jpg", 1080, 1080, "none", "none", "")>>, 0, ""),
      VideoInfoSample(<<>>, 0, "https://cdn/p.jpg"),
      VideoInfoSample(<<>>, 60, "https://cdn/v"),
      VideoInfoSample(<<>>, 60, "") }

\* descriptors fetchInstagramWithGalleryDl builds: always exactly one format
GalleryDlInfos ==
    { Info("Instagram Media", "https://cdn/p.jpg", <<>>, 0, "Unknown", "Unknown", "",
           <<Format(1, "jpg", 1080, 1080, "none", "none", "https://cdn/p.jpg")>>),
      Info("Instagram Media", "", <<>>, 30, "Unknown", "Unknown", "",
           <<Format(1, "mp4", 1080, 1080, "h264", "aac", "https://cdn/v")>>) }

\* descriptor an internal-API extractor builds (createVideoInfo)
InternalInfos ==
    { Info("Video", "", <<>>, 0, "P", "", "https://cdn/v",
           <<Format(1, "mp4", 1920, 1080, "h264", "aac", "https://cdn/v")>>) }

\* a failed yt-dlp attempt: origin "exec" is a rejected execAsync (message
\* "Command failed: <command line>\n<stderr>"), "empty" an empty stdout
\* (message "yt-dlp returned empty output. <stderr>"), "blocked" the
\* INSTAGRAM_BLOCKED case, "parse" an unparsable stdout; text is the stderr
YtDlpFailure(o, t) == [kind |-> "throw", origin |-> o, text |-> t]

StderrTexts ==
    {"", "spawn yt-dlp ENOENT", "ERROR: Video unavailable", "ERROR: Private video",
     "Sign in to confirm your age", "HTTP Error 429",
     "ERROR: The uploader has not made this video available in your country"}

YtDlpFailures ==
    {YtDlpFailure("exec", t) : t \in StderrTexts}
    \cup {YtDlpFailure("empty", t) : t \in StderrTexts}
    \cup {YtDlpFailure("blocked", ""), YtDlpFailure("parse", "")}

YtDlpOutcomes == {Got(i) : i \in YtDlpInfos} \cup YtDlpFailures

GalleryDlOutcomes == {Got(i) : i \in GalleryDlInfos} \cup {Null}

InternalOutcomes ==
    {Got(i) : i \in InternalInfos} \cup {Null} \cup {Threw(m) : m \in {"API returned 403", "Video unavailable"}}

\* stdout of yt-dlp -g, or a failed run
GetUrlOutcomes == {[kind |-> "stdout", text |-> "https://cdn/g\n"],
                   [kind |-> "stdout", text |-> "\n"],
                   [kind |-> "stdout", text |-> ""],
                   Threw("Command failed")}

\* String.prototype.trim on the stdout texts of the model
TrimStdout(t) ==
    CASE t = "https://cdn/g\n" -> "https://cdn/g"
      [] t = "\n" -> ""
      [] OTHER -> t

\* getDownloadUrl returning whatever stdout holds
getDownloadUrl_NoEmptyCheck(o) ==
    IF o.kind = "throw" THEN Threw("Failed to get download URL")
    ELSE [kind |-> "url", text |-> TrimStdout(o.text)]

\* getDownloadUrl, from the result o of the yt-dlp -g run: the trimmed
\* stdout, or a thrown error when the run failed or printed nothing
getDownloadUrl(o) ==
    IF o.kind = "throw" THEN Threw("Failed to get download URL")
    ELSE IF TrimStdout(o.text) = "" THEN Threw("Failed to get download URL")
    ELSE [kind |-> "url", text |-> TrimStdout(o.text)]

\* ------------------------------------------------------------------------
\* fetchVideoInfo of the yt-dlp module: what it throws once yt-dlp failed.
\* ------------------------------------------------------------------------

\* url.includes('instagram.com') || url.includes('instagr.am')
IsInstagramUrl(u) == u.kind = "string" /\ u.host = "instagram.com"

InstagramBlockedMessage == "Instagram is blocking download requests"

\* ytdlpError.message.includes(needle): the needles the stderr texts of the
\* model contain, and 'timeout', which the command line of a rejected
\* execAsync contains (--socket-timeout)
ErrorIncludes(f, needle) ==
    \/ f.origin = "exec" /\ needle = "timeout"
    \/ f.text = "spawn yt-dlp ENOENT" /\ needle = "ENOENT"
    \/ f.text = "ERROR: Video unavailable" /\ needle = "Video unavailable"
    \/ f.text = "ERROR: Private video" /\ needle = "Private video"
    \/ f.text = "Sign in to confirm your age" /\ needle \in {"age", "Sign in to confirm your age"}
    \/ f.text = "ERROR: The uploader has not made this video available in your country"
           /\ needle = "not available in your country"

\* the message fetchVideoInfo throws for a non-Instagram url
YtDlpThrownMessage(f) ==
    IF ErrorIncludes(f, "ENOENT") \/ ErrorIncludes(f, "not recognized")
    THEN "yt-dlp is not installed or not in PATH"
    ELSE IF ErrorIncludes(f, "Video unavailable")
    THEN "Video is unavailable or private"
    ELSE IF ErrorIncludes(f, "timed out") \/ ErrorIncludes(f, "timeout")
    THEN "Connection timed out"
    ELSE IF ErrorIncludes(f, "Unable to download webpage")
    THEN "Could not connect to the website"
    ELSE IF ErrorIncludes(f, "age") \/ ErrorIncludes(f, "Sign in to confirm your age")
    THEN "This content is age-restricted"
    ELSE IF ErrorIncludes(f, "private") \/ ErrorIncludes(f, "Private video")
    THEN "This content is private and cannot be accessed"
    ELSE IF ErrorIncludes(f, "not available in your country") \/ ErrorIncludes(f, "geo")
    THEN "This content is not available in your region"
    ELSE "Failed to fetch media info"

\* message.includes('unavailable') || message.includes('private')
MentionsUnavailableOrPrivate(m) ==
    m \in {"Video is unavailable or private",
           "This content is private and cannot be accessed"}

\* the code the POST handler gives a failed fetchVideoInfo
FetchErrorCode(m) ==
    IF MentionsUnavailableOrPrivate(m) THEN "VIDEO_UNAVAILABLE" ELSE "YTDLP_ERROR"

\* ------------------------------------------------------------------------
\* The POST handler of /api/fetch-video.
\* ------------------------------------------------------------------------

NoFormat == [formatId |-> "", ext |-> ""]

Failure(st, c, e) ==
    [kind |-> "response", success |-> FALSE, status |-> st, code |-> c, error |-> e,
     downloadUrl |-> "", mediaType |-> "", selectedFormat |-> NoFormat]

Success(dl, mt, fmt) ==
    [kind |-> "response", success |-> TRUE, status |-> 200, code |-> "", error |-> "",
     downloadUrl |-> dl, mediaType |-> mt, selectedFormat |-> fmt]

\* toVideoFormat, the fields the model keeps
toVideoFormat(f) == [formatId |-> f.format_id, ext |-> IF f.ext # "" THEN f.ext ELSE "mp4"]

Qualities == {"sd", "hd", "4k", ""}

\* steps 2 and 3 without the validateVideoUrl check of step 3
PostValidationFailure_NoUrlCheck(u, q) ==
    IF Falsy(u) THEN Failure(400, "INVALID_URL", "URL is required")
    ELSE IF q \notin {"sd", "hd"}
    THEN Failure(400, "INVALID_URL", "Quality must be either sd or hd")
    ELSE None

\* steps 2 and 3 of the handler: the failure response for the parsed body's
\* url and quality, or None when they pass
PostValidationFailure(u, q) ==
    IF Falsy(u) THEN Failure(400, "INVALID_URL", "URL is required")
    ELSE IF q \notin {"sd", "hd"}
    THEN Failure(400, "INVALID_URL", "Quality must be either sd or hd")
    ELSE IF ~validateVideoUrl(u).isValid
    THEN Failure(400, "UNSUPPORTED_PLATFORM", validateVideoUrl(u).error)
    ELSE None

\* step 5 for a descriptor without formats
PostNoFormats(info, plat) ==
    IF info.url # ""
    THEN Success(info.url, toVideoInfo(info, plat).mediaType,
                 [formatId |-> "direct",
                  ext |-> IF toVideoInfo(info, plat).mediaType = "photo" THEN "jpg" ELSE "mp4"])
    ELSE Failure(404, "QUALITY_NOT_FOUND", "No formats available for this media")

\* step 5 with selectFormat used for every media type
PostSelectedFormat_AlwaysByQuality(info, plat, q) == selectFormat(info.formats, q)

\* step 5: the format selected for a descriptor with formats
PostSelectedFormat(info, plat, q) ==
    IF toVideoInfo(info, plat).mediaType = "photo"
    THEN selectPhotoFormat(info.formats)
    ELSE selectFormat(info.formats, q)

\* urls of the requests the handler and fetchVideoInfo are run on
RequestUrls ==
    { MissingUrl, NonStringUrl, EmptyUrl, BlankUrl,
      UrlValue("string", FALSE, "https://", "www.", "youtube.com", "/watch?v=a"),
      UrlValue("string", FALSE, "", "", "youtube.com", "/watch?v=a"),
      UrlValue("string", TRUE, "http://", "", "x.com", "/u/status/1"),
      UrlValue("string", FALSE, "https://", "www.", "instagram.com", "/p/a"),
      UrlValue("string", FALSE, "https://", "vm.", "tiktok.com", "/a"),
      UrlValue("string", FALSE, "https://", "", "example.com", "/a"),
      UrlValue("string", FALSE, "ftp://", "", "example.com", "/a") }

\* the timeout option of the execAsync that runs yt-dlp --dump-json or
\* gallery-dl --dump-json
EXEC_TIMEOUT_MS == 120000

\* the timeout an extractor's awaited call is given: the execAsync option for
\* the two tools, none (0) for the fetch() of the API extractors
CallTimeout(fn) == IF fn \in {"yt-dlp", "gallery-dl"} THEN EXEC_TIMEOUT_MS ELSE 0

Call(fn) == [fn |-> fn, outcome |-> Pending, cookies |-> "", timeout |-> CallTimeout(fn)]

\* the awaited call settles: the upstream answers, or the call has a timeout
\* that ends it
Settles(c) == c.timeout > 0 \/ env.upstream = "answers"

\* hosts of authRequiredSites
authRequiredSites == {"instagram.com", "twitter.com", "x.com", "facebook.com"}

\* authRequiredSites.some(site => url.includes(site))
NeedsAuth(u) == u.kind = "string" /\ u.host \in authRequiredSites

\* getAvailableBrowser: the first browser with a profile directory, 'firefox'
\* when none is found
getAvailableBrowser(e) == IF e.profile = "none" THEN "firefox" ELSE e.profile

getCookiesArg(u, e) ==
    IF NeedsAuth(u)
    THEN IF e.cookiesFile THEN "--cookies cookies.txt"
         ELSE IF getAvailableBrowser(e) = "firefox" THEN "--cookies-from-browser firefox"
         ELSE "--cookies-from-browser chrome"
    ELSE ""

\* the hosts fetchVideoInfo of the yt-dlp module can run on
Hostings ==
    [galleryDl : BOOLEAN, cookiesFile : BOOLEAN, profile : {"none", "firefox", "chrome"},
     upstream : {"answers", "silent"}]

\* the API service modules use no local tool and no cookies
ApiHostings ==
    [galleryDl : {FALSE}, cookiesFile : {FALSE}, profile : {"none"},
     upstream : {"answers", "silent"}]

\* the log with the outcome of the running (last) invocation filled in
Returned(log, o) == [log EXCEPT ![Len(log)].outcome = o]

Init ==
    /\ svc \in {"ytdlp", "internal", "cobalt", "alltube"}
    /\ phase = CASE svc = "ytdlp" -> "post"
                 [] svc = "internal" -> "fetch"
                 [] svc = "cobalt" -> "fetchCobalt"
                 [] svc = "alltube" -> "fetchAllTube"
    /\ url \in RequestUrls
    /\ body \in IF svc = "ytdlp" THEN {"ok", "bad"} ELSE {"ok"}
    /\ quality \in IF svc = "ytdlp" THEN Qualities ELSE {"sd"}
    /\ env \in IF svc = "ytdlp" THEN Hostings ELSE ApiHostings
    /\ platform = ""
    /\ validation = None
    /\ formats = <<>>
    /\ selected = None
    /\ calls = <<>>
    /\ errors = <<>>
    /\ fetched = None
    /\ secondary = <<>>
    /\ response = None
    /\ PageIdle

\* step 1: await request.json()
PostParseBody ==
    /\ phase = "post"
    /\ IF body = "bad"
       THEN /\ response' = Failure(400, "INVALID_URL", "Invalid JSON in request body")
            /\ phase' = "done"
       ELSE /\ response' = response
            /\ phase' = "parsed"
    /\ UNCHANGED <<url, body, quality, platform, validation, formats, selected, svc, env,
                   calls, errors, fetched, secondary>>
    /\ UNCHANGED pageVars

\* steps 2 to 4: validate, then call fetchVideoInfo, which runs up to its
\* await of the yt-dlp process
PostValidate ==
    /\ phase = "parsed"
    /\ IF PostValidationFailure(url, quality) # None
       THEN /\ response' = PostValidationFailure(url, quality)
            /\ phase' = "done"
            /\ UNCHANGED <<validation, platform, calls>>
       ELSE /\ validation' = validateVideoUrl(url)
            /\ platform' = validateVideoUrl(url).platform
            /\ calls' = <<[Call("yt-dlp") EXCEPT !.cookies = getCookiesArg(url, env)]>>
            /\ phase' = "ytdlp"
            /\ response' = response
    /\ UNCHANGED <<url, body, quality, formats, selected, svc, env, errors, fetched,
                   secondary>>
    /\ UNCHANGED pageVars

\* fetchVideoInfo resumes with the result of the yt-dlp process
YtDlpReturn ==
    /\ phase = "ytdlp"
    /\ Settles(calls[Len(calls)])
    /\ \E o \in (IF env.upstream = "silent" THEN {YtDlpFailure("exec", "")}
                ELSE YtDlpOutcomes) :
         IF o.kind = "info"
         THEN /\ calls' = Returned(calls, o)
              /\ fetched' = o
              /\ phase' = "fetched"
         ELSE IF IsInstagramUrl(url)
         THEN IF env.galleryDl
              THEN /\ calls' = Append(Returned(calls, o), Call("gallery-dl"))
                   /\ fetched' = fetched
                   /\ phase' = "gallerydl"
              ELSE /\ calls' = Returned(calls, o)
                   /\ fetched' = Threw(InstagramBlockedMessage)
                   /\ phase' = "fetched"
         ELSE /\ calls' = Returned(calls, o)
              /\ fetched' = Threw(YtDlpThrownMessage(o))
              /\ phase' = "fetched"
    /\ UNCHANGED <<url, body, quality, platform, validation, formats, selected, svc, env,
                   errors, secondary, response>>
    /\ UNCHANGED pageVars

\* fetchInstagramWithGalleryDl resumes with the result of the gallery-dl process
GalleryDlReturn ==
    /\ phase = "gallerydl"
    /\ Settles(calls[Len(calls)])
    /\ \E o \in (IF env.upstream = "silent" THEN {Null} ELSE GalleryDlOutcomes) :
         /\ calls' = Returned(calls, o)
         /\ fetched' = IF o.kind = "info" THEN o ELSE Threw(InstagramBlockedMessage)
    /\ phase' = "fetched"
    /\ UNCHANGED <<url, body, quality, platform, validation, formats, selected, svc, env,
                   errors, secondary, response>>
    /\ UNCHANGED pageVars

\* step 6 with the format's own url never used
HasDirectUrl_Never(f) == FALSE

\* step 6: if (selectedFormat.url)
HasDirectUrl(f) == f.url # ""

\* steps 4 (catch) to 6 of the handler, up to the response or the await of
\* getDownloadUrl
PostAfterFetch ==
    /\ phase = "fetched"
    /\ IF fetched.kind = "throw"
       THEN /\ response' = Failure(500, FetchErrorCode(fetched.message), fetched.message)
            /\ phase' = "done"
            /\ UNCHANGED <<formats, selected, secondary>>
       ELSE LET info == fetched.info
                sel == PostSelectedFormat(info, validation.platform, quality)
                mt == toVideoInfo(info, validation.platform).mediaType
            IN  /\ formats' = info.formats
                /\ IF Len(info.formats) = 0
                   THEN /\ response' = PostNoFormats(info, validation.platform)
                        /\ phase' = "done"
                        /\ UNCHANGED <<selected, secondary>>
                   ELSE /\ selected' = sel
                        /\ IF sel = None
                           THEN /\ response' = Failure(404, "QUALITY_NOT_FOUND",
                                                       "No format available")
                                /\ phase' = "done"
                                /\ secondary' = secondary
                           ELSE IF HasDirectUrl(sel)
                           THEN /\ response' = Success(sel.url, mt, toVideoFormat(sel))
                                /\ phase' = "done"
                                /\ secondary' = secondary
                           ELSE /\ secondary' = Append(secondary, sel.format_id)
                                /\ phase' = "geturl"
                                /\ response' = response
    /\ UNCHANGED <<url, body, quality, platform, validation, svc, env, calls, errors,
                   fetched>>
    /\ UNCHANGED pageVars

\* getDownloadUrl resumes with the result of yt-dlp -g; step 7
GetDownloadUrlReturn ==
    /\ phase = "geturl"
    /\ \E o \in (IF env.upstream = "silent" THEN {Threw("Command failed")}
                ELSE GetUrlOutcomes) :
         response' =
            IF getDownloadUrl(o).kind = "url"
            THEN Success(getDownloadUrl(o).text,
                         toVideoInfo(fetched.info, validation.platform).mediaType,
                         toVideoFormat(selected))
            ELSE Failure(500, "YTDLP_ERROR", "Failed to get download URL")
    /\ phase' = "done"
    /\ UNCHANGED <<url, body, quality, platform, validation, formats, selected, svc, env,
                   calls, errors, fetched, secondary>>
    /\ UNCHANGED pageVars

\* ------------------------------------------------------------------------
\* fetchVideoInfo of the internal-API service module.
\* ------------------------------------------------------------------------

\* new URL(url) succeeds: the string has a scheme
ParsesAsUrl(u) == u.scheme # ""

\* the first entry of SUPPORTED_PLATFORMS with a pattern found in the url
InternalPlatformOf(u) ==
    CASE u.host \in {"youtube.com", "youtu.be"} -> "YouTube"
      [] u.host = "instagram.com" -> "Instagram"
      [] u.host = "tiktok.com" -> "TikTok"
      [] u.host \in {"twitter.com", "x.com"} -> "Twitter"
      [] u.host = "facebook.com" -> "Facebook"
      [] u.host = "vimeo.com" -> "Vimeo"
      [] OTHER -> "Other"

validateVideoUrlInternal(u) ==
    IF Falsy(u)
    THEN [isValid |-> FALSE, platform |-> "Unknown", error |-> "URL is required"]
    ELSE IF ~ParsesAsUrl(u)
    THEN [isValid |-> FALSE, platform |-> "Unknown", error |-> "Invalid URL format"]
    ELSE [isValid |-> TRUE, platform |-> InternalPlatformOf(u), error |-> ""]

\* the guarded try blocks of fetchVideoInfo, in program order
InternalHandlers ==
    << [platform |-> "YouTube", fn |-> "fetchYouTubeInternal", label |-> "YouTube"],
       [platform |-> "TikTok", fn |-> "fetchTikTokInternal", label |-> "TikTok"],
       [platform |-> "Instagram", fn |-> "fetchInstagramInternal", label |-> "Instagram"],
       [platform |-> "Twitter", fn |-> "fetchTwitterInternal", label |-> "Twitter"],
       [platform |-> "Facebook", fn |-> "fetchFacebookInternal", label |-> "Facebook"],
       [platform |-> "TikTok", fn |-> "fetchFromTikWM", label |-> "TikWM"] >>

\* the next try block after position i whose guard holds for the platform, or 0
NextHandler(plat, i) ==
    LET later == {j \in DOMAIN InternalHandlers : j > i /\ InternalHandlers[j].platform = plat}
    IN  IF later = {} THEN 0 ELSE CHOOSE j \in later : \A k \in later : j <= k

HandlerIndex(fn) == CHOOSE j \in DOMAIN InternalHandlers : InternalHandlers[j].fn = fn

\* if (result) return result; with the test turned off
InternalReturns_Never(o) == FALSE

\* if (result) return result;
InternalReturns(o) == o.kind = "info"

InternalGiveUp == Threw("Unable to download")

\* fetchVideoInfo(url) up to its first await
FetchInternalBegin ==
    /\ phase = "fetch"
    /\ validation' = validateVideoUrlInternal(url)
    /\ platform' = validateVideoUrlInternal(url).platform
    /\ LET j == NextHandler(validateVideoUrlInternal(url).platform, 0) IN
       IF j = 0
       THEN /\ fetched' = InternalGiveUp
            /\ phase' = "done"
            /\ calls' = calls
       ELSE /\ calls' = <<Call(InternalHandlers[j].fn)>>
            /\ phase' = "extractor"
            /\ fetched' = fetched
    /\ UNCHANGED <<url, body, quality, formats, selected, svc, env, errors, secondary,
                   response>>
    /\ UNCHANGED pageVars

\* fetchVideoInfo resumes with the result of the running extractor
InternalExtractorReturn ==
    /\ phase = "extractor"
    /\ Settles(calls[Len(calls)])
    /\ \E o \in InternalOutcomes :
         LET cur == HandlerIndex(calls[Len(calls)].fn)
             j == NextHandler(platform, cur)
         IN  IF InternalReturns(o)
             THEN /\ calls' = Returned(calls, o)
                  /\ fetched' = o
                  /\ phase' = "done"
                  /\ errors' = errors
             ELSE /\ errors' = IF o.kind = "throw"
                               THEN Append(errors, [label |-> InternalHandlers[cur].label,
                                                    message |-> o.message])
                               ELSE errors
                  /\ IF j = 0
                     THEN /\ calls' = Returned(calls, o)
                          /\ fetched' = InternalGiveUp
                          /\ phase' = "done"
                     ELSE /\ calls' = Append(Returned(calls, o), Call(InternalHandlers[j].fn))
                          /\ fetched' = fetched
                          /\ phase' = "extractor"
    /\ UNCHANGED <<url, body, quality, platform, validation, formats, selected, svc, env,
                   secondary, response>>
    /\ UNCHANGED pageVars

\* ------------------------------------------------------------------------
\* fetchVideoInfo of the Cobalt service module and of the AllTube service
\* module.
\* ------------------------------------------------------------------------

\* validateVideoUrl of the two modules: the code of the internal-API one with
\* a longer SUPPORTED_PLATFORMS list, in the same order for the hosts modelled
validateVideoUrlCobalt(u) == validateVideoUrlInternal(u)

validateVideoUrlAllTube(u) == validateVideoUrlInternal(u)

\* the try blocks of the Cobalt fetchVideoInfo, in program order; "Any" is a
\* block without a platform guard
CobaltHandlers ==
    << [platform |-> "Any", fn |-> "fetchFromCobalt", label |-> "Cobalt"],
       [platform |-> "YouTube", fn |-> "fetchYouTubeInfo", label |-> "YouTube"],
       [platform |-> "TikTok", fn |-> "fetchTikTokInfo", label |-> "TikTok"] >>

\* the try blocks of the AllTube fetchVideoInfo, in program order
AllTubeHandlers ==
    << [platform |-> "Any", fn |-> "fetchFromAllTube", label |-> "AllTube"],
       [platform |-> "Any", fn |-> "fetchFromSaveFrom", label |-> "SaveFrom"] >>

\* fetchVideoInfo with no try block after the one that failed
NextHandlerIn_None(hs, plat, i) == 0

\* the next try block of hs after position i that runs for the platform, or 0
NextHandlerIn(hs, plat, i) ==
    LET later == {j \in DOMAIN hs : j > i /\ hs[j].platform \in {plat, "Any"}}
    IN  IF later = {} THEN 0 ELSE CHOOSE j \in later : \A k \in later : j <= k

HandlerIndexIn(hs, fn) == CHOOSE j \in DOMAIN hs : hs[j].fn = fn

\* what fetchYouTubeInfo returns when no download url was found: no formats,
\* url = the page url
YouTubePageInfo ==
    Info("YouTube Video", "https://img.youtube.com/vi/a/maxresdefault.jpg", <<>>, 0,
         "YouTube", "", "https://www.youtube.com/watch?v=a", <<>>)

\* what an extractor of the two modules can answer: fetchFromCobalt and
\* fetchFromAllTube throw, return null or a descriptor; the others catch
\* their own errors and return null
ApiOutcomes(fn) ==
    CASE fn \in {"fetchFromCobalt", "fetchFromAllTube"} ->
             {Got(i) : i \in InternalInfos} \cup {Null}
                 \cup {Threw(m) : m \in {"API returned 403", "fetch failed"}}
      [] fn = "fetchYouTubeInfo" ->
             {Got(i) : i \in InternalInfos \cup {YouTubePageInfo}} \cup {Null}
      [] OTHER -> {Got(i) : i \in InternalInfos} \cup {Null}

CobaltGiveUp == Threw("Unable to download. The video may be private, age-restricted, or the platform is blocking requests")

AllTubeGiveUp == Threw("Could not fetch video. This may be due to: private or age-restricted, blocking, invalid URL")

\* fetchVideoInfo(url) of the Cobalt module up to its first await
FetchCobaltBegin ==
    /\ phase = "fetchCobalt"
    /\ validation' = validateVideoUrlCobalt(url)
    /\ platform' = validateVideoUrlCobalt(url).platform
    /\ calls' = <<Call(CobaltHandlers[1].fn)>>
    /\ phase' = "cobaltExtractor"
    /\ UNCHANGED <<url, body, quality, formats, selected, svc, env, errors, fetched,
                   secondary, response>>
    /\ UNCHANGED pageVars

\* fetchVideoInfo of the Cobalt module resumes with the result of the running
\* extractor; a caught error is only logged
CobaltExtractorReturn ==
    /\ phase = "cobaltExtractor"
    /\ Settles(calls[Len(calls)])
    /\ \E o \in ApiOutcomes(calls[Len(calls)].fn) :
         LET cur == HandlerIndexIn(CobaltHandlers, calls[Len(calls)].fn)
             j == NextHandlerIn(CobaltHandlers, platform, cur)
         IN  IF o.kind = "info"
             THEN /\ calls' = Returned(calls, o)
                  /\ fetched' = o
                  /\ phase' = "done"
             ELSE IF j = 0
             THEN /\ calls' = Returned(calls, o)
                  /\ fetched' = CobaltGiveUp
                  /\ phase' = "done"
             ELSE /\ calls' = Append(Returned(calls, o), Call(CobaltHandlers[j].fn))
                  /\ fetched' = fetched
                  /\ phase' = "cobaltExtractor"
    /\ UNCHANGED <<url, body, quality, platform, validation, formats, selected, svc, env,
                   errors, secondary, response>>
    /\ UNCHANGED pageVars

\* fetchVideoInfo(url) of the AllTube module up to its first await
FetchAllTubeBegin ==
    /\ phase = "fetchAllTube"
    /\ validation' = validateVideoUrlAllTube(url)
    /\ platform' = validateVideoUrlAllTube(url).platform
    /\ calls' = <<Call(AllTubeHandlers[1].fn)>>
    /\ phase' = "allTubeExtractor"
    /\ UNCHANGED <<url, body, quality, formats, selected, svc, env, errors, fetched,
                   secondary, response>>
    /\ UNCHANGED pageVars

\* fetchFromSaveFrom awaits nothing unless the platform is YouTube
SaveFromIsLocal(c) == c.fn = "fetchFromSaveFrom" /\ platform # "YouTube"

\* fetchVideoInfo of the AllTube module resumes with the result of the running
\* extractor; a caught error is pushed to errors, which the final throw does
\* not read
AllTubeExtractorReturn ==
    /\ phase = "allTubeExtractor"
    /\ Settles(calls[Len(calls)]) \/ SaveFromIsLocal(calls[Len(calls)])
    /\ \E o \in (IF SaveFromIsLocal(calls[Len(calls)]) THEN {Null}
                ELSE ApiOutcomes(calls[Len(calls)].fn)) :
         LET cur == HandlerIndexIn(AllTubeHandlers, calls[Len(calls)].fn)
             j == NextHandlerIn(AllTubeHandlers, platform, cur)
         IN  IF o.kind = "info"
             THEN /\ calls' = Returned(calls, o)
                  /\ fetched' = o
                  /\ phase' = "done"
                  /\ errors' = errors
             ELSE /\ errors' = IF o.kind = "throw"
                               THEN Append(errors, [label |-> AllTubeHandlers[cur].label,
                                                    message |-> o.message])
                               ELSE errors
                  /\ IF j = 0
                     THEN /\ calls' = Returned(calls, o)
                          /\ fetched' = AllTubeGiveUp
                          /\ phase' = "done"
                     ELSE /\ calls' = Append(Returned(calls, o), Call(AllTubeHandlers[j].fn))
                          /\ fetched' = fetched
                          /\ phase' = "allTubeExtractor"
    /\ UNCHANGED <<url, body, quality, platform, validation, formats, selected, svc, env,
                   secondary, response>>
    /\ UNCHANGED pageVars

Next ==
    \/ PostParseBody
    \/ PostValidate
    \/ YtDlpReturn
    \/ GalleryDlReturn
    \/ PostAfterFetch
    \/ GetDownloadUrlReturn
    \/ FetchInternalBegin
    \/ InternalExtractorReturn
    \/ FetchCobaltBegin
    \/ CobaltExtractorReturn
    \/ FetchAllTubeBegin
    \/ AllTubeExtractorReturn

Spec == Init /\ [][Next]_vars

\* the same program with every step that is enabled eventually taken: the
\* event loop runs a continuation once its awaited call has settled
SpecLive == Init /\ [][Next]_vars /\ WF_vars(Next)

\* ------------------------------------------------------------------------
\* Specification of the media kind: toVideoInfo / detectIfPhoto applied to an
\* arbitrary descriptor.
\* ------------------------------------------------------------------------

\* info.url values: absent, a video url, and urls ending in an image extension
MediaUrls == {"", "https://cdn/v", "https://cdn/p.jpg", "https://cdn/P.JPG", "https://cdn/p.bmp"}

\* (ext) shapes of the formats of a descriptor
MediaShapes == {<<"mp4">>, <<"jpg">>, <<"JPG">>, <<"bmp">>}

MediaFormatLists ==
    {[i \in DOMAIN l |-> Format(i, l[i][1], 1080, 1080, "none", "none", "u")] :
        l \in ListsOver(MediaShapes)}

\* thumbnails lists (the url of each entry), absent or empty list included
ThumbnailLists ==
    {<<>>, <<"https://cdn/t1">>, <<"https://cdn/t1", "https://cdn/t2">>,
     <<"https://cdn/t2", "https://cdn/t1">>}

\* descriptors whose textual fields are present or absent
TextInfos ==
    {Info(t, th, ths, 60, up, ch, "https://cdn/v", <<>>) :
        t \in {"", "T"}, th \in {"", "https://cdn/t0"}, ths \in ThumbnailLists,
        up \in {"", "U"}, ch \in {"", "C"}}

\* descriptors; duration 0 is also an absent duration
MediaInfos ==
    {VideoInfoSample(fs, d, u) : fs \in MediaFormatLists, d \in {0, 60}, u \in MediaUrls}
        \cup TextInfos

InitMedia ==
    /\ phase = "media"
    /\ url = EmptyUrl
    /\ quality = "sd"
    /\ platform = "other"
    /\ validation = None
    /\ formats = <<>>
    /\ selected = None
    /\ body = "ok"
    /\ svc = "ytdlp"
    /\ env = None
    /\ calls = <<>>
    /\ errors = <<>>
    /\ fetched \in {Got(i) : i \in MediaInfos}
    /\ secondary = <<>>
    /\ response = None
    /\ PageIdle

\* toVideoInfo(info, platform)
ToVideoInfoStep ==
    /\ phase = "media"
    /\ phase' = "mediaDone"
    /\ response' = [kind |-> "videoInfo", info |-> toVideoInfo(fetched.info, platform)]
    /\ UNCHANGED <<url, body, quality, platform, validation, formats, selected, svc, env,
                   calls, errors, fetched, secondary>>
    /\ UNCHANGED pageVars

NextMedia == ToVideoInfoStep

SpecMedia == InitMedia /\ [][NextMedia]_vars

\* ------------------------------------------------------------------------
\* Specification of getDownloadUrlWithAudio of the yt-dlp module.
\* ------------------------------------------------------------------------

\* (height, acodec, url) shapes of the formats of the descriptor
AudioShapes ==
    {<<h, a[1], a[2]>> : h \in {360, 1080},
                         a \in {<<"aac", "https://cdn/v">>, <<"aac", "">>,
                                <<"none", "https://cdn/v">>, <<"none", "">>,
                                <<"", "https://cdn/v">>}}

AudioFormatLists ==
    {[i \in DOMAIN l |-> Format(i, "mp4", 0, l[i][1], "h264", l[i][2], l[i][3])] :
        l \in ListsOver(AudioShapes)}

\* what the awaited fetchVideoInfo(url) gives getDownloadUrlWithAudio
AudioFetched ==
    {Got(VideoInfoSample(fs, 60, "")) : fs \in AudioFormatLists}
    \cup {Threw("Video is unavailable or private")}

\* stdout of yt-dlp -f "<merge format string>" -g as its lines (one url per
\* line; no line for an empty output), or a failed run
MergeOutcomes ==
    {[kind |-> "stdout", lines |-> l] :
        l \in {<<"https://cdn/m", "https://cdn/a">>, <<"https://cdn/m">>, <<>>}}
    \cup {Threw("Command failed")}

\* stdout.trim().split('\n')[0]
FirstUrl(lines) == IF lines = <<>> THEN "" ELSE lines[1]

\* a result of getDownloadUrlWithAudio
AudioResult(dl, f) == [kind |-> "url", downloadUrl |-> dl, format |-> f]

\* selectedFormat.acodec && selectedFormat.acodec !== 'none' && selectedFormat.url
HasAudioAndUrl(f) == f.acodec # "" /\ f.acodec # "none" /\ f.url # ""

InitAudio ==
    /\ phase = "audio"
    /\ url = UrlValue("string", FALSE, "https://", "www.", "youtube.com", "/watch?v=a")
    /\ quality \in {"sd", "hd"}
    /\ platform = ""
    /\ validation = None
    /\ formats = <<>>
    /\ selected = None
    /\ body = "ok"
    /\ svc = "ytdlp"
    /\ env = None
    /\ calls = <<>>
    /\ errors = <<>>
    /\ fetched \in AudioFetched
    /\ secondary = <<>>
    /\ response = None
    /\ PageIdle

\* getDownloadUrlWithAudio from the result of fetchVideoInfo up to its return,
\* its throw or the await of the merge query
AudioBegin ==
    /\ phase = "audio"
    /\ IF fetched.kind = "throw"
       THEN /\ response' = fetched
            /\ phase' = "audioDone"
            /\ UNCHANGED <<formats, selected, calls>>
       ELSE LET sel == selectFormat(fetched.info.formats, quality) IN
            /\ formats' = fetched.info.formats
            /\ IF Len(fetched.info.formats) = 0
               THEN /\ response' = Threw("No formats available for this video")
                    /\ phase' = "audioDone"
                    /\ UNCHANGED <<selected, calls>>
               ELSE /\ selected' = sel
                    /\ IF sel = None
                       THEN /\ response' = Threw("No format available")
                            /\ phase' = "audioDone"
                            /\ calls' = calls
                       ELSE IF HasAudioAndUrl(sel)
                       THEN /\ response' = AudioResult(sel.url, sel)
                            /\ phase' = "audioDone"
                            /\ calls' = calls
                       ELSE /\ calls' = <<[fn |-> "merge query", outcome |-> Pending]>>
                            /\ phase' = "merge"
                            /\ response' = response
    /\ UNCHANGED <<url, body, quality, platform, validation, svc, env, errors, fetched,
                   secondary>>
    /\ UNCHANGED pageVars

\* the merge query returns: its first url is the result; when it failed, the
\* selected format's url, or with none the await of getDownloadUrl
MergeReturn ==
    /\ phase = "merge"
    /\ \E o \in MergeOutcomes :
         /\ calls' = Returned(calls, o)
         /\ IF o.kind = "stdout"
            THEN /\ response' = AudioResult(FirstUrl(o.lines), selected)
                 /\ phase' = "audioDone"
                 /\ secondary' = secondary
            ELSE IF selected.url # ""
            THEN /\ response' = AudioResult(selected.url, selected)
                 /\ phase' = "audioDone"
                 /\ secondary' = secondary
            ELSE /\ secondary' = Append(secondary, selected.format_id)
                 /\ phase' = "lastResort"
                 /\ response' = response
    /\ UNCHANGED <<url, body, quality, platform, validation, formats, selected, svc, env,
                   errors, fetched>>
    /\ UNCHANGED pageVars

\* getDownloadUrl(url, selectedFormat.format_id) returns or throws
LastResortReturn ==
    /\ phase = "lastResort"
    /\ \E o \in GetUrlOutcomes :
         response' =
            IF getDownloadUrl(o).kind = "url"
            THEN AudioResult(getDownloadUrl(o).text, selected)
            ELSE getDownloadUrl(o)
    /\ phase' = "audioDone"
    /\ UNCHANGED <<url, body, quality, platform, validation, formats, selected, svc, env,
                   calls, errors, fetched, secondary>>
    /\ UNCHANGED pageVars

NextAudio == AudioBegin \/ MergeReturn \/ LastResortReturn

SpecAudio == InitAudio /\ [][NextAudio]_vars

\* ------------------------------------------------------------------------
\* Specification of the page component (Home): the url input, the SD and HD
\* buttons, the form, and the fetchVideo calls they start.
\* ------------------------------------------------------------------------

\* fetchVideo calls the model lets await their request at the same time
MaxInFlight == 2

\* texts of the url input
PageUrls ==
    { EmptyUrl, BlankUrl,
      UrlValue("string", FALSE, "https://", "www.", "youtube.com", "/watch?v=a"),
      UrlValue("string", TRUE, "https://", "www.", "youtube.com", "/watch?v=a"),
      UrlValue("string", FALSE, "https://", "www.", "instagram.com", "/reel/a"),
      UrlValue("string", FALSE, "ftp://", "", "vimeo.com", "/a"),
      UrlValue("string", FALSE, "", "", "example.com", "") }

\* a string value of a field that may be null
Str(t) == [kind |-> "string", text |-> t]

\* an error state that keeps no message
ErrorState_NullError(m) == [status |-> "error", data |-> Null, error |-> Null]

\* the three values fetchVideo passes to setVideoState
ErrorState(m) == [status |-> "error", data |-> Null, error |-> Str(m)]

LoadingState == [status |-> "loading", data |-> Null, error |-> Null]

SuccessState(d) == [status |-> "success", data |-> d, error |-> Null]

\* what the body of a response to POST /api/fetch-video can hold: a success
\* or a failure object of the handler, a failure object without message, and
\* a body that is no JSON
ResponseBodies ==
    { Success("https://cdn/720", "video", [formatId |-> 1, ext |-> "mp4"]),
      Success("https://cdn/p.jpg", "photo", [formatId |-> "direct", ext |-> "jpg"]),
      Failure(400, "UNSUPPORTED_PLATFORM", "Please enter a valid URL"),
      Failure(404, "QUALITY_NOT_FOUND", "No format available"),
      Failure(500, "UNKNOWN_ERROR", ""),
      [kind |-> "html"] }

\* fetch() settles: resolved with a response, or rejected (network error)
FetchSettlements ==
    {[kind |-> "resolved", body |-> b] : b \in ResponseBodies}
    \cup {Threw("Failed to fetch")}

\* the url input and both buttons with nothing disabled
Disabled_Never == FALSE

\* disabled={videoState.status === 'loading'} of the url input and of both
\* buttons
Disabled == videoState.status = "loading"

\* !url.trim() taking no text for blank
IsBlank_Never(u) == FALSE

\* !url.trim()
IsBlank(u) == Trim(u) = EmptyUrl

InitPage ==
    /\ phase = "page"
    /\ url = EmptyUrl
    /\ quality = ""
    /\ platform = ""
    /\ validation = None
    /\ formats = <<>>
    /\ selected = None
    /\ IdleRequest
    /\ PageIdle

\* onChange of the url input
ChangeUrl ==
    /\ phase = "page"
    /\ ~Disabled
    /\ \E u \in PageUrls : url' = u
    /\ UNCHANGED <<phase, body, quality, platform, validation, formats, selected, svc,
                   env, calls, errors, fetched, secondary, response>>
    /\ UNCHANGED pageVars

\* fetchVideo(q) up to its return or its await of fetch()
FetchVideoBegin(q) ==
    /\ phase = "page"
    /\ Len(requests) < MaxInFlight
    /\ IF IsBlank(url)
       THEN /\ videoState' = ErrorState("Please enter a video URL")
            /\ UNCHANGED <<fetchingQuality, requests>>
       ELSE /\ fetchingQuality' = q
            /\ videoState' = LoadingState
            /\ requests' = Append(requests, [quality |-> q, url |-> Trim(url),
                                             stage |-> "fetch", body |-> None])
    /\ UNCHANGED <<phase, url, body, quality, platform, validation, formats, selected,
                   svc, env, calls, errors, fetched, secondary, response>>

\* onClick of the SD button
ClickSd ==
    /\ ~Disabled
    /\ FetchVideoBegin("sd")

\* onClick of the HD button
ClickHd ==
    /\ ~Disabled
    /\ FetchVideoBegin("hd")

\* onSubmit of the form (Enter in the url input, its only control):
\* handleSubmit
SubmitForm ==
    /\ ~Disabled
    /\ FetchVideoBegin("hd")

\* requests without its i-th element
Without(s, i) == SubSeq(s, 1, i - 1) \o SubSeq(s, i + 1, Len(s))

\* the catch and finally blocks of fetchVideo, for a thrown Error
CatchAndFinally(i, message) ==
    /\ videoState' = ErrorState(message)
    /\ fetchingQuality' = "null"
    /\ requests' = Without(requests, i)

\* await fetch(...) settles for one of the waiting calls
FetchSettles ==
    /\ phase = "page"
    /\ \E i \in DOMAIN requests :
         /\ requests[i].stage = "fetch"
         /\ \E o \in FetchSettlements :
              IF o.kind = "resolved"
              THEN /\ requests' = [requests EXCEPT ![i].stage = "json", ![i].body = o.body]
                   /\ UNCHANGED <<videoState, fetchingQuality>>
              ELSE CatchAndFinally(i, o.message)
    /\ UNCHANGED <<phase, url, body, quality, platform, validation, formats, selected,
                   svc, env, calls, errors, fetched, secondary, response>>

\* await response.json() settles for one of the waiting calls, and the call
\* runs to its end
JsonSettles ==
    /\ phase = "page"
    /\ \E i \in DOMAIN requests :
         /\ requests[i].stage = "json"
         /\ LET data == requests[i].body IN
            IF data.kind = "html"
            THEN CatchAndFinally(i, "Unexpected token < in JSON")
            ELSE /\ videoState' =
                        IF data.success THEN SuccessState(data)
                        ELSE ErrorState(IF data.error # "" THEN data.error
                                        ELSE "Failed to fetch video")
                 /\ fetchingQuality' = "null"
                 /\ requests' = Without(requests, i)
    /\ UNCHANGED <<phase, url, body, quality, platform, validation, formats, selected,
                   svc, env, calls, errors, fetched, secondary, response>>

NextPage == ChangeUrl \/ ClickSd \/ ClickHd \/ SubmitForm \/ FetchSettles \/ JsonSettles

SpecPage == InitPage /\ [][NextPage]_vars

\* the page where every request resolves or rejects and the continuation of
\* the call that awaited it is run
SpecPageLive ==
    InitPage /\ [][NextPage]_vars /\ WF_vars(FetchSettles) /\ WF_vars(JsonSettles)

\* ------------------------------------------------------------------------
\* Properties of the classifier.
\* ------------------------------------------------------------------------

\* the input is a string that, surrounding whitespace aside, begins with
\* http:// or https:// (in any letter case)
HasHttpPrefix(u) == u.kind = "string" /\ u.scheme \in {"http://", "https://", "HTTPS://"}

\* C1: detectPlatform returns 'unknown' for every input that is empty, not a
\* string or without an http(s):// prefix, whatever host and path it names; a
\* platform tag or 'other' is returned only for inputs with the prefix.
C1_UnknownWithoutHttpPrefix ==
    phase = "classified" => (platform # "unknown" => HasHttpPrefix(url))

\* ------------------------------------------------------------------------
\* Properties of the selectors.
\* ------------------------------------------------------------------------

\* the first candidate set: a video codec other than 'none', a positive
\* height, extension mp4 or webm
Preferred(f) ==
    /\ f.vcodec \notin {"", "none"}
    /\ f.height > 0
    /\ f.ext = "mp4" \/ f.ext = "webm"

FirstSet(fs) == {f \in Elems(fs) : Preferred(f)}

SecondSet(fs) == {f \in Elems(fs) : f.height > 0}

\* the candidates that survive pre-filtering
Candidates(fs) == IF FirstSet(fs) # {} THEN FirstSet(fs) ELSE SecondSet(fs)

\* C5: with tier 'sd' the result is the candidate of greatest height <= 480
\* (480 included); with no candidate <= 480 it is a candidate of smallest
\* height, and selection does not fail while there is a candidate.
C5_SdGreatestUpTo480 ==
    (phase = "selected" /\ quality = "sd" /\ Candidates(formats) # {}) =>
        LET c == Candidates(formats)
            sd == {f \in c : f.height <= 480}
        IN  /\ selected \in c
            /\ sd # {} => selected \in sd /\ \A f \in sd : f.height <= selected.height
            /\ sd = {} => \A f \in c : selected.height <= f.height

\* C5 witness: 480 is chosen although a smaller and a larger candidate exist
C5_Witness ==
    /\ phase = "selected" /\ quality = "sd"
    /\ selected # None /\ selected.height = 480
    /\ \E f \in Candidates(formats) : f.height = 240
    /\ \E f \in Candidates(formats) : f.height = 720

\* the HD policy over a candidate set c
HdPolicy(c, r) ==
    /\ r \in c
    /\ (\E f \in c : f.height = 1080) => r.height = 1080
    /\ \A f \in c : Abs(r.height - 1080) <= Abs(f.height - 1080)
    /\ \A f \in c : Abs(r.height - 1080) = Abs(f.height - 1080) => f.height <= r.height

\* C6: with tier 'hd' selectFormat returns a candidate of height 1080 when
\* there is one, otherwise a candidate closest to 1080, the larger height on
\* equal distance, whatever the order of the list; in the yt-dlp module the
\* candidates are the pre-filtered formats, in the internal-API module all
\* formats of the list.
C6_HdClosestPreferLarger ==
    /\ (phase = "selected" /\ quality = "hd" /\ Candidates(formats) # {}) =>
            HdPolicy(Candidates(formats), selected)
    /\ (phase = "selectedInternal" /\ quality = "hd" /\ formats # <<>>) =>
            HdPolicy(Elems(formats), selected)

\* C7: the candidate set is the first set; when that is empty, the formats
\* with a positive height; when that is empty too, nothing is selected.  A
\* format outside the first set is selected only when the first set is empty.
C7_ThreeStepCandidates ==
    phase = "selected" =>
        /\ FirstSet(formats) # {} => selected \in FirstSet(formats)
        /\ (FirstSet(formats) = {} /\ SecondSet(formats) # {}) => selected \in SecondSet(formats)
        /\ SecondSet(formats) = {} => selected = None

\* C7 witness: the first set is non-empty, and a format outside it would have
\* matched the tier better (1080 for hd) but is not the one selected
C7_Witness ==
    /\ phase = "selected" /\ quality = "hd"
    /\ FirstSet(formats) # {}
    /\ \E f \in SecondSet(formats) \ FirstSet(formats) : f.height = 1080
    /\ selected \in FirstSet(formats) /\ selected.height # 1080

\* extension order jpg/jpeg > png > webp > gif > bmp > unknown, the extension
\* read case-insensitively as in the image filter
ExtRank(e) ==
    LET l == ToLowerCase(e) IN
    CASE l \in {"jpg", "jpeg"} -> 1
      [] l = "png" -> 2
      [] l = "webp" -> 3
      [] l = "gif" -> 4
      [] l = "bmp" -> 5
      [] OTHER -> 6

IsImage(f) == ToLowerCase(f.ext) \in {"jpg", "jpeg", "png", "webp", "gif", "bmp"}

\* C8: selectPhotoFormat returns the first format when no format has an image
\* extension; otherwise an image format of largest width x height, and among
\* those of equal area one whose extension comes first in the extension order.
C8_PhotoLargestThenExtension ==
    (phase = "photoSelected" /\ formats # <<>>) =>
        LET imgs == {f \in Elems(formats) : IsImage(f)} IN
        IF imgs = {} THEN selected = formats[1]
        ELSE /\ selected \in imgs
             /\ \A f \in imgs : f.width * f.height <= selected.width * selected.height
             /\ \A f \in imgs : f.width * f.height = selected.width * selected.height
                                    => ExtRank(selected.ext) <= ExtRank(f.ext)

\* ------------------------------------------------------------------------
\* Properties of the POST handler and of the fallback chains.
\* ------------------------------------------------------------------------

\* the url is classified 'other' by the service module in use
ClassifiedOther ==
    IF svc = "ytdlp" THEN detectPlatform(url) = "other"
    ELSE validateVideoUrlInternal(url).platform = "Other"

\* the url is accepted by the validation of the service module in use
Accepted ==
    IF svc = "ytdlp" THEN validateVideoUrl(url).isValid
    ELSE validateVideoUrlInternal(url).isValid

\* C2: for a well-formed http(s) url of no known platform, classification
\* gives 'other', validation accepts it, and resolution does not end before
\* an extractor has been invoked for it.
C2_OtherStillTriesExtractor ==
    (HasHttpPrefix(url) /\ ClassifiedOther /\ body = "ok" /\ quality \in {"sd", "hd"}) =>
        /\ Accepted
        /\ phase = "done" => calls # <<>>

\* C3: a request whose url is missing, not a string or without http(s)://
\* prefix, or whose quality is neither 'sd' nor 'hd', is answered with
\* success=false, a 4xx status and the code INVALID_URL.
C3_InvalidInputCode ==
    (svc = "ytdlp" /\ phase = "done" /\ body = "ok"
        /\ (~HasHttpPrefix(url) \/ quality \notin {"sd", "hd"})) =>
        /\ response.success = FALSE
        /\ response.status \in 400..499
        /\ response.code = "INVALID_URL"

\* the request fails validation: unparsable body, missing url, quality not
\* sd/hd, or url rejected by validateVideoUrl
FailsValidation ==
    \/ body = "bad"
    \/ Falsy(url)
    \/ quality \notin {"sd", "hd"}
    \/ ~validateVideoUrl(url).isValid

\* C4: for a request that fails validation the handler answers with its
\* failure response and neither an extractor process nor a secondary fetch is
\* ever started.
C4_NoExtractorOnValidationFailure ==
    (svc = "ytdlp" /\ FailsValidation) =>
        /\ calls = <<>>
        /\ secondary = <<>>
        /\ phase \in {"post", "parsed", "done"}
        /\ phase = "done" => response.success = FALSE /\ response.status = 400

\* C4 witness: a url rejected by validateVideoUrl alone has been answered
C4_Witness ==
    /\ svc = "ytdlp" /\ phase = "done"
    /\ body = "ok" /\ quality = "hd" /\ ~Falsy(url) /\ ~validateVideoUrl(url).isValid
    /\ response.success = FALSE /\ calls = <<>>

\* C9: a descriptor without formats is never answered with success=true.
C9_ZeroFormatsIsFailure ==
    (svc = "ytdlp" /\ phase = "done" /\ fetched.kind = "info"
        /\ Len(fetched.info.formats) = 0) =>
        response.success = FALSE

\* position of an extractor in the order its service module lists it
ListPosition(fn) ==
    CASE fn = "yt-dlp" -> 1
      [] fn = "gallery-dl" -> 2
      [] svc = "cobalt" -> HandlerIndexIn(CobaltHandlers, fn)
      [] svc = "alltube" -> HandlerIndexIn(AllTubeHandlers, fn)
      [] OTHER -> HandlerIndex(fn)

\* C10: extractors run one at a time in list order; an extractor that returned
\* a descriptor is the last one invoked, and fetchVideoInfo returns exactly
\* that descriptor, not an error of the extractors that failed before it.
C10_FirstSuccessEndsChain ==
    /\ \A i \in DOMAIN calls :
           i < Len(calls) => calls[i].outcome.kind \in {"null", "throw"}
    /\ \A i, j \in DOMAIN calls :
           i < j => ListPosition(calls[i].fn) < ListPosition(calls[j].fn)
    /\ (calls # <<>> /\ calls[Len(calls)].outcome.kind = "info") =>
           fetched = calls[Len(calls)].outcome

\* C10 witness: the first extractor failed, the second returned a descriptor,
\* and that descriptor is the result
C10_Witness ==
    /\ Len(calls) = 2
    /\ calls[1].outcome.kind = "throw"
    /\ calls[2].outcome.kind = "info"
    /\ fetched = calls[2].outcome

\* ------------------------------------------------------------------------
\* Properties of error handling in the fallback chains.
\* ------------------------------------------------------------------------

\* an extractor attempt that failed: it threw (timeout, network failure,
\* non-success status, empty or unparsable payload) or returned nothing
FailedCall(c) == c.outcome.kind \in {"null", "throw"}

\* the extractors the service module in use lists for the url: for the yt-dlp
\* module yt-dlp, and gallery-dl for an Instagram url where it is installed;
\* for the API modules the try blocks whose guard the platform satisfies
ApplicableCandidates ==
    CASE svc = "ytdlp" ->
             {"yt-dlp"} \cup (IF IsInstagramUrl(url) /\ env.galleryDl THEN {"gallery-dl"} ELSE {})
      [] svc = "internal" ->
             {InternalHandlers[j].fn : j \in {k \in DOMAIN InternalHandlers :
                 InternalHandlers[k].platform = validateVideoUrlInternal(url).platform}}
      [] svc = "cobalt" ->
             {CobaltHandlers[j].fn : j \in {k \in DOMAIN CobaltHandlers :
                 CobaltHandlers[k].platform \in {"Any", validateVideoUrlCobalt(url).platform}}}
      [] svc = "alltube" ->
             {AllTubeHandlers[j].fn : j \in DOMAIN AllTubeHandlers}

\* C11: an extractor attempt that failed in any way is followed by the next
\* applicable candidate; fetchVideoInfo fails only when every applicable
\* candidate has been attempted and has failed, and then it does fail.
C11_FailureMovesToNextCandidate ==
    /\ fetched.kind = "throw" =>
           \A fn \in ApplicableCandidates :
               \E i \in DOMAIN calls : calls[i].fn = fn /\ FailedCall(calls[i])
    /\ (calls # <<>> /\ FailedCall(calls[Len(calls)])) => fetched.kind = "throw"
    /\ \A i \in DOMAIN calls : calls[i].fn \in ApplicableCandidates

\* C11 witness: yt-dlp was ended by its timeout, gallery-dl was tried next and
\* returned nothing, and only then fetchVideoInfo failed
C11_Witness ==
    /\ svc = "ytdlp" /\ env.upstream = "silent"
    /\ Len(calls) = 2
    /\ calls[1].fn = "yt-dlp" /\ calls[1].outcome.kind = "throw"
    /\ calls[2].fn = "gallery-dl" /\ calls[2].outcome.kind = "null"
    /\ fetched.kind = "throw"

\* the failure reasons the message of the error thrown by fetchVideoInfo
\* contains: the joined errors[] in the internal-API module; none in the
\* AllTube and Cobalt modules and for Instagram in the yt-dlp module, whose
\* messages are fixed texts; otherwise in the yt-dlp module the one yt-dlp
\* error the message is derived from
CausesInThrownError ==
    CASE svc = "internal" -> errors
      [] svc \in {"alltube", "cobalt"} -> <<>>
      [] svc = "ytdlp" ->
             IF fetched.message = InstagramBlockedMessage THEN <<>>
             ELSE <<[label |-> "yt-dlp", message |-> fetched.message]>>

\* C12: when every attempted extractor failed, the error fetchVideoInfo throws
\* carries one failure reason per attempted extractor: as many causes as
\* extractors were attempted, not the last one only and not a fixed text
\* (stated for the AllTube and the yt-dlp module).
C12_ErrorCarriesEveryCause ==
    (svc \in {"alltube", "ytdlp"} /\ fetched.kind = "throw" /\ calls # <<>>) =>
        Len(CausesInThrownError) = Len(calls)

\* the extractors that take a url of any platform; the others run for one
\* platform only
GenericExtractors == {"yt-dlp", "fetchFromCobalt", "fetchFromAllTube", "fetchFromSaveFrom"}

\* the platform-specific extractors the module in use has for the url
SpecificCandidates == ApplicableCandidates \ GenericExtractors

\* C13: a generic multi-platform extractor is never invoked while a
\* platform-specific extractor for the url is still untried: every
\* platform-specific candidate has been invoked before any generic one.
C13_SpecificBeforeGeneric ==
    \A i \in DOMAIN calls :
        calls[i].fn \in GenericExtractors =>
            \A fn \in SpecificCandidates : \E j \in 1..(i - 1) : calls[j].fn = fn

\* ------------------------------------------------------------------------
\* Properties of the media kind.
\* ------------------------------------------------------------------------

\* the url names an image: it contains .jpg .jpeg .png .webp .gif or .bmp,
\* read case-insensitively
UrlNamesImage(u) == u \in {"https://cdn/p.jpg", "https://cdn/P.JPG", "https://cdn/p.bmp"}

\* C14: mediaType is 'photo' exactly when the duration is absent or 0 and an
\* extension of {jpg, jpeg, png, webp, gif, bmp} is found in a format's
\* extension or in the descriptor's url; otherwise it is 'video'.
C14_PhotoIffNoDurationAndImageExtension ==
    phase = "mediaDone" =>
        LET info == fetched.info
            signal == \/ \E f \in Elems(info.formats) : IsImage(f)
                      \/ UrlNamesImage(info.url)
        IN  /\ response.info.mediaType \in {"photo", "video"}
            /\ response.info.mediaType = "photo" <=> (info.duration = 0 /\ signal)

\* ------------------------------------------------------------------------
\* Properties of getDownloadUrlWithAudio.
\* ------------------------------------------------------------------------

\* the merge-aware follow-up query was made and failed
MergeQueryFailed == calls # <<>> /\ calls[1].outcome.kind = "throw"

\* C15: when the selected format has no audio track and the merge-aware
\* follow-up query fails, getDownloadUrlWithAudio returns the url of the
\* originally selected format; the failed follow-up never makes the call fail.
C15_FallbackToSelectedUrl ==
    (phase = "audioDone" /\ selected # None /\ selected.acodec \in {"", "none"}
        /\ MergeQueryFailed) =>
        /\ response.kind = "url"
        /\ response.downloadUrl = selected.url
        /\ response.format = selected

\* ------------------------------------------------------------------------
\* Properties of credentials, error codes and timeouts.
\* ------------------------------------------------------------------------

\* no credential material on the host: no cookies.txt and no browser profile
NoCredentialMaterial == ~env.cookiesFile /\ env.profile = "none"

\* C16: for a url on a site known to require authentication, with no
\* credential material available, the credential-dependent extractors of the
\* yt-dlp module (yt-dlp, gallery-dl) fail by a local check: none of their
\* tools is started.
C16_SkipsWithoutCredentials ==
    (svc = "ytdlp" /\ NeedsAuth(url) /\ NoCredentialMaterial) =>
        \A i \in DOMAIN calls : calls[i].fn \notin {"yt-dlp", "gallery-dl"}

\* the yt-dlp run reported that the media is absent, private, age-restricted
\* or geo-restricted
MediaUnavailableCause(o) ==
    /\ o.kind = "throw"
    /\ o.text \in {"ERROR: Video unavailable", "ERROR: Private video",
                   "Sign in to confirm your age",
                   "ERROR: The uploader has not made this video available in your country"}

\* C17: a failed resolution is answered with the code VIDEO_UNAVAILABLE exactly
\* when the media is absent, private, age-restricted or geo-restricted;
\* timeouts, blocked requests and tool errors get another code.
C17_UnavailableCodeIffMediaUnavailable ==
    (svc = "ytdlp" /\ phase = "done" /\ fetched.kind = "throw") =>
        (response.code = "VIDEO_UNAVAILABLE" <=> MediaUnavailableCause(calls[1].outcome))

\* C18: every extractor invocation is bounded by a timeout, so whatever the
\* upstream does, never answering included, every resolution request
\* eventually ends, with a descriptor or with a failure.
C18_EveryResolutionEnds == <>(phase = "done")

\* ------------------------------------------------------------------------
\* Algebraic properties of selectFormat.
\* ------------------------------------------------------------------------

SortedByHeightDesc(fs) == \A i, j \in DOMAIN fs : i < j => fs[i].height >= fs[j].height

Considered ==
    IF phase = "selectedInternal" THEN Elems(formats) ELSE Candidates(formats)

\* C20: in every implementation of selectFormat, tier 'sd' returns a format of
\* height <= 480 whenever the formats it considers contain one; a taller
\* format is returned only when none of height <= 480 is available (a
\* format without height is not counted as one of height <= 480).
C20_SdNeverAbove480WhenAvailable ==
    (phase \in {"selected", "selectedInternal"} /\ quality = "sd"
        /\ \E f \in Considered : f.height > 0 /\ f.height <= 480) =>
        (selected # None /\ selected.height <= 480)

\* ------------------------------------------------------------------------
\* Properties of the download url of the POST handler.
\* ------------------------------------------------------------------------

\* the descriptor with the url of every format removed
WithoutFormatUrls(info) ==
    [info EXCEPT !.formats = [i \in DOMAIN info.formats |-> [info.formats[i] EXCEPT !.url = ""]]]

\* C21: once the POST handler has selected a format: a format with a direct
\* url gives that url as downloadUrl and no secondary fetch; a format without
\* gives exactly one secondary fetch, keyed by the format's id; and the same
\* format is picked whether or not the formats carry urls.
C21_DirectUrlOrOneSecondaryFetch ==
    (svc = "ytdlp" /\ selected # None) =>
        /\ selected.url # "" =>
               /\ secondary = <<>>
               /\ phase = "done" /\ response.success
               /\ response.downloadUrl = selected.url
        /\ selected.url = "" => secondary = <<selected.format_id>>
        /\ selected.format_id =
               PostSelectedFormat(WithoutFormatUrls(fetched.info), validation.platform,
                                  quality).format_id

\* C21 witness: a format without url was selected although another format of
\* the descriptor has one, and the one secondary fetch gave the download url
C21_Witness ==
    /\ svc = "ytdlp" /\ phase = "done"
    /\ selected # None /\ selected.url = ""
    /\ \E f \in Elems(formats) : f.url # ""
    /\ secondary = <<selected.format_id>>
    /\ response.success /\ response.downloadUrl = "https://cdn/g"

\* C22: toVideoInfo takes the thumbnail from the thumbnail field when it is
\* non-empty, otherwise from the last element of thumbnails when that list is
\* non-empty, otherwise it is the empty string; title and uploader are never
\* absent, and are 'Unknown Title' and 'Unknown' when the descriptor names none.
C22_ThumbnailAndTextDefaults ==
    phase = "mediaDone" =>
        LET i == fetched.info
            r == response.info
        IN  /\ i.thumbnail # "" => r.thumbnail = i.thumbnail
            /\ (i.thumbnail = "" /\ Len(i.thumbnails) > 0) =>
                   r.thumbnail = i.thumbnails[Len(i.thumbnails)]
            /\ (i.thumbnail = "" /\ Len(i.thumbnails) = 0) => r.thumbnail = ""
            /\ r.title # "" /\ r.uploader # ""
            /\ r.title = (IF i.title = "" THEN "Unknown Title" ELSE i.title)
            /\ (i.uploader = "" /\ i.channel = "") => r.uploader = "Unknown"
            /\ i.uploader # "" => r.uploader = i.uploader

\* C22 witness: no thumbnail field, two different thumbnails, the last one
\* taken, and both placeholders used
C22_Witness ==
    /\ phase = "mediaDone"
    /\ fetched.info.thumbnail = "" /\ Len(fetched.info.thumbnails) = 2
    /\ fetched.info.thumbnails[1] # fetched.info.thumbnails[2]
    /\ response.info.thumbnail = fetched.info.thumbnails[2]
    /\ response.info.title = "Unknown Title" /\ response.info.uploader = "Unknown"

\* C23: selectFormat of the yt-dlp module, for sd or hd, returns nothing or an
\* element of its input whose height is positive, and returns nothing exactly
\* when no input format has a positive height.
C23_SelectFormatResultHasHeight ==
    phase \in {"selected", "selectedAgain"} =>
        /\ selected # None => (selected \in Elems(formats) /\ selected.height > 0)
        /\ selected = None <=> ~(\E f \in Elems(formats) : f.height > 0)

\* C23 witness: no format passes the first filter, one format has no height,
\* and a format with a height is returned through the fallback
C23_Witness ==
    /\ phase = "selected"
    /\ Len(SelectSeq(formats, IsVideoFormat)) = 0
    /\ \E f \in Elems(formats) : f.height = 0
    /\ selected # None /\ selected.height > 0

\* C24: every success response of the POST handler carries a non-empty
\* downloadUrl; a selected format without url whose secondary fetch did not
\* give a url ends in a failure response.
C24_SuccessHasDownloadUrl ==
    (svc = "ytdlp" /\ phase = "done" /\ response.kind = "response") =>
        /\ response.success => response.downloadUrl # ""
        /\ (response.success /\ selected # None) =>
               (selected.url # "" \/ secondary = <<selected.format_id>>)
        /\ (response.success /\ selected = None) => fetched.info.url # ""

\* C24 witness: the selected format has no url and the request ended in the
\* failure response of the secondary fetch
C24_Witness ==
    /\ svc = "ytdlp" /\ phase = "done"
    /\ selected # None /\ selected.url = ""
    /\ secondary = <<selected.format_id>>
    /\ ~response.success /\ response.code = "YTDLP_ERROR"

\* C25: whenever getDownloadUrlWithAudio returns rather than throws, its
\* downloadUrl is a non-empty string, whether it is the format's own url, the
\* first output line of the merge query, or the result of getDownloadUrl.
C25_ReturnedDownloadUrlNonEmpty ==
    (phase = "audioDone" /\ response.kind = "url") => response.downloadUrl # ""

\* ------------------------------------------------------------------------
\* Properties of the POST handler on photos.
\* ------------------------------------------------------------------------

\* the handler classified the fetched descriptor as a photo and selected one
\* of its formats
PhotoSelected ==
    /\ svc = "ytdlp" /\ fetched.kind = "info" /\ selected # None
    /\ toVideoInfo(fetched.info, validation.platform).mediaType = "photo"

\* the extension is one of jpg, jpeg, png, webp, gif, bmp, in any case
HasImageExtension(f) == ToLowerCase(f.ext) \in imageExtensions

\* C26: whenever the POST handler classifies the descriptor as a photo and
\* returns a selected format, that format has an image extension; a video
\* format is never the selected format of a photo.
C26_PhotoSelectsImageFormat ==
    PhotoSelected => HasImageExtension(selected)

\* C26 amended: whenever the POST handler classifies the descriptor as a photo
\* and one of its formats has an image extension, the selected format has an
\* image extension; when none has, the first format in source order is selected.
C26_PhotoSelectsImageFormatWhenOneExists ==
    PhotoSelected =>
        IF \E f \in Elems(formats) : HasImageExtension(f)
        THEN HasImageExtension(selected)
        ELSE selected = formats[1]

\* C26 witness: a photo whose first format is a video format and whose second
\* format is an image, answered with the image format
C26_Witness ==
    /\ PhotoSelected /\ phase = "done" /\ response.success
    /\ ~HasImageExtension(formats[1])
    /\ HasImageExtension(selected)
    /\ response.selectedFormat.formatId = selected.format_id

\* C27: for a descriptor classified as a photo the response of the POST
\* handler does not depend on the requested quality: the selected format, the
\* secondary fetch made for it, and the downloadUrl and selectedFormat of the
\* response are those the handler computes for 'sd' and for 'hd' alike.
C27_PhotoResponseIndependentOfQuality ==
    (svc = "ytdlp" /\ phase = "done" /\ fetched.kind = "info"
        /\ toVideoInfo(fetched.info, validation.platform).mediaType = "photo") =>
        \A q \in {"sd", "hd"} :
            LET sel == PostSelectedFormat(fetched.info, validation.platform, q) IN
            IF Len(fetched.info.formats) = 0
            THEN response = PostNoFormats(fetched.info, validation.platform)
            ELSE /\ selected = sel
                 /\ secondary = (IF sel.url # "" THEN <<>> ELSE <<sel.format_id>>)
                 /\ response.success =>
                        /\ response.selectedFormat = toVideoFormat(sel)
                        /\ sel.url # "" => response.downloadUrl = sel.url

\* C27 witness: a photo requested as 'sd' answered with a format higher than
\* 480 although a lower one exists
C27_Witness ==
    /\ svc = "ytdlp" /\ phase = "done" /\ quality = "sd" /\ fetched.kind = "info"
    /\ toVideoInfo(fetched.info, validation.platform).mediaType = "photo"
    /\ response.success
    /\ selected # None /\ selected.height > SD_MAX_HEIGHT
    /\ \E f \in Elems(formats) : f.height > 0 /\ f.height <= SD_MAX_HEIGHT

\* ------------------------------------------------------------------------
\* Properties of the page component.
\* ------------------------------------------------------------------------

\* C28: in the page component data is non-null exactly when status is
\* 'success', error is non-null exactly when status is 'error', both are null
\* when status is 'idle' or 'loading', and status never returns to 'idle' once
\* it has left it.
C28_VideoStateConsistent ==
    /\ [](/\ videoState.data # Null <=> videoState.status = "success"
          /\ videoState.error # Null <=> videoState.status = "error"
          /\ videoState.status \in {"idle", "loading", "success", "error"})
    /\ [][videoState.status # "idle" => videoState'.status # "idle"]_vars

\* C28 witness: a fetch answered with a success object after an earlier state
\* change, the data kept and no error
C28_Witness ==
    /\ phase = "page"
    /\ videoState.status = "success"
    /\ videoState.data # Null /\ videoState.data.downloadUrl = "https://cdn/p.jpg"
    /\ videoState.error = Null
    /\ fetchingQuality = "null" /\ requests = <<>>

\* C29: in the page component, when every request resolves or rejects, a
\* fetchVideo call that set status 'loading' eventually leaves it; whenever
\* 'loading' is left, status is 'success' or 'error' and fetchingQuality is
\* null, on every path; and a call with a blank url sets status 'error'
\* without sending a request and without setting 'loading'.
C29_LoadingEndsAndBlankUrlSendsNothing ==
    /\ (videoState.status = "loading") ~>
           (videoState.status \in {"success", "error"} /\ fetchingQuality = "null")
    /\ [][(videoState.status = "loading" /\ videoState'.status # "loading") =>
              (videoState'.status \in {"success", "error"} /\ fetchingQuality' = "null")]_vars
    /\ [](videoState.status # "loading" => fetchingQuality = "null")
    /\ [][(url \in {EmptyUrl, BlankUrl} /\ videoState' # videoState) =>
              /\ videoState' = [status |-> "error", data |-> Null,
                                error |-> Str("Please enter a video URL")]
              /\ requests' = requests /\ requests = <<>>
              /\ fetchingQuality' = fetchingQuality]_vars

\* C29 witness: a call whose request was rejected has left 'loading' through
\* the catch block
C29_Witness ==
    /\ phase = "page"
    /\ videoState.status = "error" /\ videoState.error = Str("Failed to fetch")
    /\ fetchingQuality = "null" /\ requests = <<>>

\* C30: in the page component at most one fetch request is in flight at any
\* time: while status is 'loading' no fetchVideo call is started from the SD
\* button, the HD button or the form, and a call that completes is the one
\* that set the current 'loading' state, so no late response overwrites the
\* state of a later request.
C30_AtMostOneFetchInFlight ==
    /\ [](Len(requests) <= 1)
    /\ [](requests # <<>> <=> videoState.status = "loading")
    /\ [][videoState.status = "loading" => Len(requests') <= Len(requests)]_vars
    /\ [][Len(requests') < Len(requests) =>
              /\ Len(requests) = 1
              /\ requests[1].quality = fetchingQuality
              /\ requests[1].url = Trim(url)
              /\ videoState = [status |-> "loading", data |-> Null, error |-> Null]]_vars

\* C30 witness: a call started from the SD button awaits the body of its
\* response while the controls are disabled
C30_Witness ==
    /\ phase = "page"
    /\ videoState.status = "loading"
    /\ Len(requests) = 1 /\ requests[1].stage = "json" /\ requests[1].quality = "sd"
    /\ fetchingQuality = "sd"

====
